---- MODULE Spec2Model ----
(***************************************************************************)
(* A model of msaavedra/tinydns: the dhcpd lease log parser and lease      *)
(* store (dhcpd.py), the dhcp2tinydns driver's derivation of Alias records *)
(* (dhcp2tinydns.py), and the tinydns data-line, section and zone classes  *)
(* (data.py).                                                              *)
(*                                                                         *)
(* Text is modelled as sequences of one-character strings wherever the     *)
(* code looks inside it (data lines, host names); tokens the code only     *)
(* compares for equality (MAC and IP addresses, paths) are opaque strings. *)
(***************************************************************************)
EXTENDS Integers, Sequences, FiniteSets, TLC

VARIABLES
    pc,             \* position of the program: parse loop, store built, driver loops
    tracing,        \* whether the consumed lines are recorded in log
    log,            \* the lease-log lines consumed so far (history)
    current_lease,  \* dhcpd.py:10 the lease block being accumulated, or NoLease
    leases,         \* dhcpd.py:9 Leases.leases
    err,            \* the exception that ended the program, "" when none
    CURRENT_TIME,   \* dhcp2tinydns.py:81, in half seconds
    lookup,         \* the last leases[mac] of the driver: [mac, lease, found]
    mac_host_names, \* dhcp2tinydns.py:97
    dynamics,       \* the Alias records added to the dynamics section
    reached,        \* the leases handed to calc_ttl so far (history)
    uniq,           \* the leases yield_unique yields, in order
    upos,           \* how many of uniq the driver's second loop consumed
    rec,            \* data.py: the data line object constructed, or NoRecord
    text,           \* data.py: str(rec), once taken
    parsed,         \* data.py: what Section.read makes of the line: [rec, err]
    rpc,            \* position of the serialize/parse experiment
    files,          \* the file system: path -> text
    objs,           \* the Section objects created so far, by identity
    sections,       \* AuthoritativeDNS.sections: identities of Section objects
    out             \* the value the last call returned

leaseVars == <<pc, tracing, log, current_lease, leases, err, CURRENT_TIME,
               lookup, mac_host_names, dynamics, reached, uniq, upos>>

dataVars == <<rec, text, parsed, rpc, files, objs, sections, out>>

vars == <<leaseVars, dataVars>>

(***************************************************************************)
(* Bounds of the model.                                                    *)
(***************************************************************************)
MaxLeases == 2
MaxLogLines == 4
MaxMacLines == 1

(***************************************************************************)
(* Python values.                                                          *)
(***************************************************************************)
None == "None"
\* None where a number is expected (Lease.expiration before an `ends` line)
NoneTime == -1
\* None where a text is expected (Lease.host_name before a client-hostname line)
NoneStr == <<"None">>
\* current_lease = None
NoLease == [ip |-> None, mac |-> None, expiration |-> NoneTime,
            host_name |-> NoneStr, blk |-> 0]

\* Python 2 cmp() on expirations: None sorts below every number.
Cmp(a, b) ==
    IF a = b THEN 0
    ELSE IF a = NoneTime THEN -1
    ELSE IF b = NoneTime THEN 1
    ELSE IF a < b THEN -1 ELSE 1

\* Lease.__cmp__
LeaseCmp(self, other) == Cmp(self.expiration, other.expiration)

Front(s) == SubSeq(s, 1, Len(s) - 1)

\* list.sort() is stable: an element goes after the elements not above it.
RECURSIVE InsertStable(_, _)
InsertStable(x, s) ==
    IF s /= <<>> /\ LeaseCmp(x, s[Len(s)]) < 0
    THEN Append(InsertStable(x, Front(s)), s[Len(s)])
    ELSE Append(s, x)

RECURSIVE ListSort(_)
ListSort(s) ==
    IF s = <<>> THEN <<>> ELSE InsertStable(s[Len(s)], ListSort(Front(s)))

\* list.reverse()
ListReverse(s) == [i \in 1..Len(s) |-> s[Len(s) + 1 - i]]

\* Faulty variants of SortLeases: the reverse forgotten; a stable descending sort.
SortLeases_NoReverse(ls) == ListSort(ls)

RECURSIVE InsertStableDesc(_, _)
InsertStableDesc(x, s) ==
    IF s /= <<>> /\ LeaseCmp(x, s[Len(s)]) > 0
    THEN Append(InsertStableDesc(x, Front(s)), s[Len(s)])
    ELSE Append(s, x)

RECURSIVE ListSortDesc(_)
ListSortDesc(s) ==
    IF s = <<>> THEN <<>> ELSE InsertStableDesc(s[Len(s)], ListSortDesc(Front(s)))

SortLeases_StableDescending(ls) == ListSortDesc(ls)

\* dhcpd.py:24-25  self.leases.sort(); self.leases.reverse()
SortLeases(ls) == ListReverse(ListSort(ls))

(***************************************************************************)
(* Lease log lines, after line.strip().  A line is one of: a comment or    *)
(* blank line; `lease <ip> {`; a line starting with `}`; `ends <wd> <date> *)
(* <time>;`; `hardware ethernet <mac>;`; `client-hostname <name>;`; some   *)
(* other statement of two or more characters; a line of one character.     *)
(***************************************************************************)
IPs == {"ip1"}
MACs == {"m1", "m2"}
\* time.mktime values (whole seconds) in half seconds: 4600 s and 1001000 s
Times == {9200, 2002000}
\* `ends never;` has no fields[2]: add_line raises IndexError
Never == -2
\* raw client-hostname tokens: "J_d" and _
RawNames == {<<"\"", "J", "_", "d", "\"">>, <<"_">>}

Line(kind, ip, mac, time, name) ==
    [kind |-> kind, ip |-> ip, mac |-> mac, time |-> time, name |-> name]

LeaseLines == {Line("lease", ip, None, NoneTime, NoneStr) : ip \in IPs}
InBlockLines ==
    {Line("ends", None, None, t, NoneStr) : t \in Times \cup {Never}}
    \cup {Line("hardware", None, m, NoneTime, NoneStr) : m \in MACs}
    \cup {Line("client-hostname", None, None, NoneTime, n) : n \in RawNames}
OtherLines ==
    {Line(k, None, None, NoneTime, NoneStr) : k \in {"comment", "close", "other", "short"}}
Lines == LeaseLines \cup InBlockLines \cup OtherLines

(***************************************************************************)
(* Lease                                                                   *)
(***************************************************************************)
\* Lease.__init__; blk numbers the blocks in log order (history, not code)
Lease(line, n) ==
    [ip |-> line.ip, mac |-> None, expiration |-> NoneTime,
     host_name |-> NoneStr, blk |-> n]

\* str.replace(character, '') for one character
RECURSIVE Remove(_, _)
Remove(s, c) ==
    IF s = <<>> THEN <<>>
    ELSE IF s[1] = c THEN Remove(Tail(s), c) ELSE <<s[1]>> \o Remove(Tail(s), c)

\* str.replace(character, '-') for one character
Replace(s, c) == [i \in 1..Len(s) |-> IF s[i] = c THEN "-" ELSE s[i]]

\* while host_name.startswith('-'): host_name = host_name[1:]
RECURSIVE StripDashes(_)
StripDashes(s) ==
    IF s /= <<>> /\ s[1] = "-" THEN StripDashes(Tail(s)) ELSE s

\* str.lower() on the letters of the model
LowerChar(c) == IF c = "J" THEN "j" ELSE IF c = "D" THEN "d" ELSE c
Lower(s) == [i \in 1..Len(s) |-> LowerChar(s[i])]

\* Lease.set_host_name
set_host_name(self, host_name) ==
    LET unquoted == Remove(Remove(host_name, "\""), "'")
        dashed == Replace(Replace(Replace(Replace(unquoted, "/"), "\\"), "_"), " ")
        stripped == StripDashes(dashed)
    IN  IF stripped = <<>> THEN self
        ELSE [self EXCEPT !.host_name = Lower(stripped)]

\* Lease.add_line: the lease after the line, and the exception raised if any
add_line(self, line) ==
    IF line.kind = "short" THEN [lease |-> self, err |-> "IndexError"]
    ELSE IF line.kind = "ends" THEN
        IF line.time = Never THEN [lease |-> self, err |-> "IndexError"]
        ELSE [lease |-> [self EXCEPT !.expiration = line.time], err |-> ""]
    ELSE IF line.kind = "hardware" THEN
        [lease |-> [self EXCEPT !.mac = line.mac], err |-> ""]
    ELSE IF line.kind = "client-hostname" THEN
        [lease |-> set_host_name(self, line.name), err |-> ""]
    ELSE [lease |-> self, err |-> ""]

\* Faulty variant of ParseLine: a `lease ` line inside a block closes the block.
ParseLine_LeaseCloses(cur, ls, line) ==
    IF line.kind = "comment" THEN [cur |-> cur, leases |-> ls, err |-> ""]
    ELSE IF line.kind = "lease" /\ cur = NoLease THEN
        [cur |-> Lease(line, Len(ls) + 1), leases |-> ls, err |-> ""]
    ELSE IF line.kind \in {"close", "lease"} /\ cur /= NoLease THEN
        [cur |-> NoLease, leases |-> Append(ls, cur), err |-> ""]
    ELSE IF cur /= NoLease THEN
        [cur |-> add_line(cur, line).lease, leases |-> ls,
         err |-> add_line(cur, line).err]
    ELSE [cur |-> cur, leases |-> ls, err |-> ""]

\* dhcpd.py:12-23, the body of the parse loop for one line
ParseLine(cur, ls, line) ==
    IF line.kind = "comment" THEN [cur |-> cur, leases |-> ls, err |-> ""]
    ELSE IF line.kind = "lease" /\ cur = NoLease THEN
        [cur |-> Lease(line, Len(ls) + 1), leases |-> ls, err |-> ""]
    ELSE IF line.kind = "close" /\ cur /= NoLease THEN
        [cur |-> NoLease, leases |-> Append(ls, cur), err |-> ""]
    ELSE IF cur /= NoLease THEN
        [cur |-> add_line(cur, line).lease, leases |-> ls,
         err |-> add_line(cur, line).err]
    ELSE [cur |-> cur, leases |-> ls, err |-> ""]

NoLookup == [mac |-> None, lease |-> NoLease, found |-> FALSE]

driverVars == <<CURRENT_TIME, lookup, mac_host_names, dynamics, reached, uniq, upos>>

\* Leases.__init__, one line of the file: lines come from Lines while the
\* bounds allow another line (and another block)
ReadLine(line) ==
    /\ pc = "parse"
    /\ tracing => Len(log) < MaxLogLines
    /\ (line.kind = "lease" /\ current_lease = NoLease) => Len(leases) < MaxLeases
    /\ LET r == ParseLine(current_lease, leases, line)
       IN  /\ current_lease' = r.cur
           /\ leases' = r.leases
           /\ err' = r.err
           /\ pc' = IF r.err = "" THEN "parse" ELSE "error"
    /\ log' = IF tracing THEN Append(log, line) ELSE log
    /\ UNCHANGED <<tracing, driverVars, dataVars>>

\* Leases.__init__, end of the file
EndOfInput ==
    /\ pc = "parse"
    /\ leases' = SortLeases(leases)
    /\ current_lease' = NoLease
    /\ pc' = "ready"
    /\ UNCHANGED <<tracing, log, err, driverVars, dataVars>>

(***************************************************************************)
(* The lease store's lookups and the driver (dhcp2tinydns.py:81-117).      *)
(***************************************************************************)
\* Leases.__getitem__: the first lease with the MAC, or KeyError
RECURSIVE GetItem(_, _)
GetItem(ls, mac) ==
    IF ls = <<>> THEN [mac |-> mac, lease |-> NoLease, found |-> FALSE]
    ELSE IF ls[1].mac = mac THEN [mac |-> mac, lease |-> ls[1], found |-> TRUE]
    ELSE GetItem(Tail(ls), mac)

\* Leases.has_key
has_key(ls, mac) == \E i \in 1..Len(ls) : ls[i].mac = mac

\* Leases.yield_unique is called at dhcp2tinydns.py:111 and defined in no
\* source file: the stored leases in order, the first of each MAC only
RECURSIVE YieldUniqueFrom(_, _)
YieldUniqueFrom(ls, seen) ==
    IF ls = <<>> THEN <<>>
    ELSE IF ls[1].mac \in seen THEN YieldUniqueFrom(Tail(ls), seen)
    ELSE <<ls[1]>> \o YieldUniqueFrom(Tail(ls), seen \cup {ls[1].mac})

yield_unique(ls) == YieldUniqueFrom(ls, {})

\* time.time() at dhcp2tinydns.py:81, in half seconds: 1000.5 s, 4550 s, 4650.5 s
NowChoices == {2001, 9100, 9301}

\* int() of a float given in half seconds: truncation towards zero
IntTrunc(h) == IF h >= 0 THEN h \div 2 ELSE -((-h) \div 2)

MinTtl == 60
MaxTtl == 86400

Max2(a, b) == IF a >= b THEN a ELSE b
Min2(a, b) == IF a <= b THEN a ELSE b

Digit(d) == <<"0", "1", "2", "3", "4", "5", "6", "7", "8", "9">>[d + 1]

\* str() of a non-negative int
RECURSIVE DecStr(_)
DecStr(n) == IF n < 10 THEN <<Digit(n)>> ELSE Append(DecStr(n \div 10), Digit(n % 10))

\* calc_ttl: None - float raises TypeError
calc_ttl(lease) ==
    IF lease.expiration = NoneTime THEN [ttl |-> <<>>, err |-> "TypeError"]
    ELSE [ttl |-> DecStr(Min2(Max2(IntTrunc(lease.expiration - CURRENT_TIME), MinTtl), MaxTtl)),
          err |-> ""]

\* the arguments of tinydns.data.Alias(domain_name, lease.ip, ttl=calc_ttl(lease));
\* domain_name is host_name followed by the one domain of the run
AliasOf(host_name, lease) ==
    [host_name |-> host_name, ip |-> lease.ip, ttl |-> calc_ttl(lease).ttl]

\* host names of the MAC file
HostNames == {<<"j", "-", "d">>, <<"x">>}

\* dhcp2tinydns.py:99-109, one line `mac host_name` of the MAC file
MacFileLine(mac, host_name) ==
    /\ pc = "ready"
    /\ Len(mac_host_names) < MaxMacLines
    /\ mac_host_names' = Append(mac_host_names, host_name)
    /\ lookup' = GetItem(leases, mac)
    /\ IF ~lookup'.found
       THEN UNCHANGED <<pc, err, dynamics, reached>>
       ELSE /\ reached' = Append(reached, lookup'.lease)
            /\ IF calc_ttl(lookup'.lease).err /= ""
               THEN /\ pc' = "error"
                    /\ err' = calc_ttl(lookup'.lease).err
                    /\ UNCHANGED dynamics
               ELSE /\ dynamics' = Append(dynamics, AliasOf(host_name, lookup'.lease))
                    /\ UNCHANGED <<pc, err>>
    /\ UNCHANGED <<tracing, log, current_lease, leases, CURRENT_TIME, uniq, upos, dataVars>>

\* dhcp2tinydns.py:111, the call leases.yield_unique() after the MAC file
YieldUnique ==
    /\ pc = "ready"
    /\ pc' = "unique"
    /\ uniq' = yield_unique(leases)
    /\ upos' = 0
    /\ UNCHANGED <<tracing, log, current_lease, leases, err, CURRENT_TIME,
                   lookup, mac_host_names, dynamics, reached, dataVars>>

InSeq(x, s) == \E i \in 1..Len(s) : s[i] = x

\* dhcp2tinydns.py:111-115, one lease of the second loop
UniqueLease ==
    /\ pc = "unique"
    /\ upos < Len(uniq)
    /\ upos' = upos + 1
    /\ LET lease == uniq[upos + 1]
       IN  IF lease.host_name /= NoneStr /\ ~InSeq(lease.host_name, mac_host_names)
           THEN /\ reached' = Append(reached, lease)
                /\ IF calc_ttl(lease).err /= ""
                   THEN /\ pc' = "error"
                        /\ err' = calc_ttl(lease).err
                        /\ UNCHANGED dynamics
                   ELSE /\ dynamics' = Append(dynamics, AliasOf(lease.host_name, lease))
                        /\ UNCHANGED <<pc, err>>
           ELSE UNCHANGED <<pc, err, dynamics, reached>>
    /\ UNCHANGED <<tracing, log, current_lease, leases, CURRENT_TIME,
                   lookup, mac_host_names, uniq, dataVars>>

\* dhcp2tinydns.py:117, the loop is over: dns.append(dynamics)
DriverDone ==
    /\ pc = "unique"
    /\ upos = Len(uniq)
    /\ pc' = "done"
    /\ UNCHANGED <<tracing, log, current_lease, leases, err, CURRENT_TIME,
                   lookup, mac_host_names, dynamics, reached, uniq, upos, dataVars>>

(***************************************************************************)
(* tinydns data lines (data.py:109-337).  A data line object is its class, *)
(* its marker and its fields, each field a text.                           *)
(***************************************************************************)
Classes == {"Location", "NameServer", "Alias", "MailExchange", "Text", "Pointer",
            "Cname", "Soa", "Generic", "Comment", "Blank"}

\* the field_names of each class
FieldNames(cls) ==
    CASE cls = "Location" -> <<"name", "ip_prefix">>
      [] cls = "NameServer" -> <<"domain", "ip", "server_name", "ttl", "stamp", "location">>
      [] cls = "Alias" -> <<"host_name", "ip", "ttl", "stamp", "location">>
      [] cls = "MailExchange" ->
            <<"domain", "ip", "server_name", "distance", "ttl", "stamp", "location">>
      [] cls = "Text" -> <<"host_name", "text", "ttl", "stamp", "location">>
      [] cls = "Pointer" -> <<"reverse_name", "host_name", "ttl", "stamp", "location">>
      [] cls = "Cname" -> <<"host_name", "target", "ttl", "stamp", "location">>
      [] cls = "Soa" ->
            <<"host_name", "name_server", "contact", "serial", "refresh_time",
              "retry_time", "expire_time", "min_time", "ttl", "stamp", "location">>
      [] cls = "Generic" -> <<"host_name", "record_type", "data", "ttl", "stamp", "location">>
      [] cls = "Comment" -> <<"text">>
      [] cls = "Blank" -> <<"Null">>

\* the markers of each class; Blank's is the empty string
MarkersOf(cls) ==
    CASE cls = "Location" -> {"%"}
      [] cls = "NameServer" -> {".", "&"}
      [] cls = "Alias" -> {"=", "+", "-"}
      [] cls = "MailExchange" -> {"@"}
      [] cls = "Text" -> {"'"}
      [] cls = "Pointer" -> {"^"}
      [] cls = "Cname" -> {"C"}
      [] cls = "Soa" -> {"Z"}
      [] cls = "Generic" -> {":"}
      [] cls = "Comment" -> {"#"}
      [] cls = "Blank" -> {""}

\* MARKER_CLASSES = _map_marker_classes(globals().values())
KnownMarkers == UNION {MarkersOf(cls) : cls \in Classes}
MARKER_CLASSES(marker) == CHOOSE cls \in Classes : marker \in MarkersOf(cls)

IndexOf(names, name) == CHOOSE i \in 1..Len(names) : names[i] = name

\* a keyword argument, or the default of the parameter
Arg(kwargs, name, default) == IF name \in DOMAIN kwargs THEN kwargs[name] ELSE default

\* _DataLine.set_fields
set_fields(cls, field_dict) ==
    [i \in 1..Len(FieldNames(cls)) |->
        IF FieldNames(cls)[i] \in DOMAIN field_dict
        THEN field_dict[FieldNames(cls)[i]] ELSE <<>>]

\* the __init__ of each class, called with keyword arguments
New(cls, kwargs) ==
    IF cls = "Blank" THEN [cls |-> cls, marker |-> "", fields |-> << <<>> >>]
    ELSE [cls |-> cls,
          marker |->
              IF cls = "NameServer"
              THEN (IF Arg(kwargs, "soa", TRUE) THEN "." ELSE "&")
              ELSE IF cls = "Alias"
              THEN (IF Arg(kwargs, "disabled", FALSE) THEN "-"
                    ELSE IF Arg(kwargs, "ptr", TRUE) THEN "=" ELSE "+")
              ELSE CHOOSE m \in MarkersOf(cls) : TRUE,
          fields |-> set_fields(cls, kwargs)]

NoRecord == [cls |-> "None", marker |-> "", fields |-> <<>>]

\* ':'.join(fields)
RECURSIVE Join(_, _)
Join(parts, sep) ==
    IF parts = <<>> THEN <<>>
    ELSE IF Len(parts) = 1 THEN parts[1]
    ELSE parts[1] \o <<sep>> \o Join(Tail(parts), sep)

\* while line.endswith(':'): line = line[:-1]
RECURSIVE StripColons(_)
StripColons(line) ==
    IF line /= <<>> /\ line[Len(line)] = ":" THEN StripColons(Front(line)) ELSE line

MarkerText(marker) == IF marker = "" THEN <<>> ELSE <<marker>>

\* _DataLine.__str__ and Comment.__str__
Str(self) ==
    IF self.cls = "Comment"
    THEN MarkerText(self.marker) \o Join(self.fields, ":") \o <<"\n">>
    ELSE StripColons(MarkerText(self.marker) \o Join(self.fields, ":")) \o <<"\n">>

\* str.split(sep)
RECURSIVE Split(_, _)
Split(s, sep) ==
    IF \A i \in 1..Len(s) : s[i] /= sep THEN <<s>>
    ELSE LET k == CHOOSE i \in 1..Len(s) :
                      s[i] = sep /\ \A j \in 1..(i - 1) : s[j] /= sep
         IN  <<SubSeq(s, 1, k - 1)>> \o Split(SubSeq(s, k + 1, Len(s)), sep)

\* files.yield_lines (cross_platform, not part of the repository): the lines
\* of a text, without their terminators
yield_lines(t) ==
    IF t = <<>> THEN <<>>
    ELSE IF t[Len(t)] = "\n" THEN Split(Front(t), "\n") ELSE Split(t, "\n")

\* dict(map(_process_fields, cls.field_names, fields)): map pads the shorter
\* list with None, so a missing value becomes '' and a value beyond the
\* field names gets the key None
KwargsOf(cls, fields) ==
    [name \in {FieldNames(cls)[i] : i \in 1..Len(FieldNames(cls))} |->
        IF IndexOf(FieldNames(cls), name) <= Len(fields)
        THEN fields[IndexOf(FieldNames(cls), name)] ELSE <<>>]

\* _DataLine.create, NameServer.create, Alias.create: cls(**kwargs) with the
\* key None raises TypeError
create(cls, marker, fields) ==
    IF Len(fields) > Len(FieldNames(cls))
    THEN [rec |-> NoRecord, err |-> "TypeError"]
    ELSE IF cls = "NameServer" /\ marker = "&"
    THEN [rec |-> New(cls, KwargsOf(cls, fields) @@ ("soa" :> TRUE)), err |-> ""]
    ELSE IF cls = "Alias" /\ marker = "-"
    THEN [rec |-> New(cls, KwargsOf(cls, fields) @@ ("disabled" :> TRUE)), err |-> ""]
    ELSE IF cls = "Alias" /\ marker = "+"
    THEN [rec |-> New(cls, KwargsOf(cls, fields) @@ ("ptr" :> FALSE)), err |-> ""]
    ELSE [rec |-> New(cls, KwargsOf(cls, fields)), err |-> ""]

\* Section.read, lines 90-93, for one line: line[0] of an empty line raises
\* IndexError, an unknown marker KeyError
ReadRecord(line) ==
    IF line = <<>> THEN [rec |-> NoRecord, err |-> "IndexError"]
    ELSE IF line[1] \notin KnownMarkers THEN [rec |-> NoRecord, err |-> "KeyError"]
    ELSE create(MARKER_CLASSES(line[1]), line[1], Split(Tail(line), ":"))

\* re.compile(regex).search(value) for a regex without special characters
Search(regex, value) ==
    \E i \in 1..(Len(value) + 1) :
        /\ i + Len(regex) - 1 <= Len(value)
        /\ SubSeq(value, i, i + Len(regex) - 1) = regex

\* _DataLine.matches
matches(self, field, regex) ==
    IF \A i \in 1..Len(FieldNames(self.cls)) : FieldNames(self.cls)[i] /= field
    THEN FALSE
    ELSE Search(regex, self.fields[IndexOf(FieldNames(self.cls), field)])

(***************************************************************************)
(* Serialising a data line and reading it back (C4, C5).                   *)
(***************************************************************************)
\* field values: '', 'a'; a Comment's text may also be 'a:'
FieldValues == {<<>>, <<"a">>}
CommentValues == FieldValues \cup {<<"a", ":">>}

AllFields(cls) ==
    [{FieldNames(cls)[i] : i \in 1..Len(FieldNames(cls))} ->
        IF cls = "Comment" THEN CommentValues ELSE FieldValues]

\* every object the constructors make from these values
Records ==
    UNION {{New(cls, kw) : kw \in AllFields(cls)} : cls \in Classes \ {"NameServer", "Alias"}}
    \cup {New("NameServer", kw @@ ("soa" :> soa)) :
            kw \in AllFields("NameServer"), soa \in BOOLEAN}
    \cup {New("Alias", kw @@ ("ptr" :> ptr) @@ ("disabled" :> dis)) :
            kw \in AllFields("Alias"), ptr \in BOOLEAN, dis \in BOOLEAN}

NoParse == [rec |-> NoRecord, err |-> ""]

zoneVars == <<files, objs, sections, out>>

\* str(record)
Serialize ==
    /\ rpc = "built"
    /\ text' = Str(rec)
    /\ rpc' = "serialized"
    /\ UNCHANGED <<rec, parsed, zoneVars, leaseVars>>

\* the line read back the way Section.read reads it
Parse ==
    /\ rpc = "serialized"
    /\ Len(yield_lines(text)) = 1
    /\ parsed' = ReadRecord(yield_lines(text)[1])
    /\ rpc' = "parsed"
    /\ UNCHANGED <<rec, text, zoneVars, leaseVars>>

\* lines given to Section.read directly: name-server lines of both markers
GivenLines == {<<".", "a", ":", "a", "\n">>, <<"&", "a", ":", "a", "\n">>}

(***************************************************************************)
(* Section and AuthoritativeDNS (data.py:20-106).                          *)
(***************************************************************************)
Paths == {"a", "b"}
\* the files: a holds `=a`, b holds `&a`; data is what merge writes
InitFiles ==
    [f \in Paths \cup {"data"} |->
        IF f = "a" THEN <<"=", "a", "\n">>
        ELSE IF f = "b" THEN <<"&", "a", "\n">>
        ELSE <<>>]

\* the path lists given to AuthoritativeDNS.read
PathLists == {<<>>, <<"a">>, <<"a", "b">>, <<"b", "a">>}

\* the records given to Section.add
AddRecords == {New("Comment", [text |-> <<"a">>])}

SearchFields == {"host_name"}
Regexes == {<<"a">>}

MaxObjs == 2
MaxRecords == 1
MaxSections == 3

\* what a call returned: the call, its section, field and regex arguments,
\* and the value: None, an exception, a text or a record list
Ret(call, s, field, regex, kind, t, records) ==
    [call |-> call, sec |-> s, field |-> field, regex |-> regex,
     kind |-> kind, text |-> t, records |-> records]

\* a call that returned None
Returned(call, s) == Ret(call, s, "", <<>>, "None", <<>>, <<>>)

\* a call that returned None or raised the exception e
Ended(call, s, e) ==
    Ret(call, s, "", <<>>, IF e = "" THEN "None" ELSE e, <<>>, <<>>)

NoneOut == Returned("", 0)

\* Section.__init__
Section(file_name) == [file_name |-> file_name, records |-> <<>>]

\* Section.__str__
RECURSIVE SectionStr(_)
SectionStr(records) ==
    IF records = <<>> THEN <<>> ELSE Str(records[1]) \o SectionStr(Tail(records))

\* Section.read, lines 89-93: each line's record is appended to self.records;
\* an exception ends the loop and keeps what was appended
RECURSIVE ReadInto(_, _)
ReadInto(records, lines) ==
    IF lines = <<>> THEN [records |-> records, err |-> ""]
    ELSE IF ReadRecord(lines[1]).err /= ""
    THEN [records |-> records, err |-> ReadRecord(lines[1]).err]
    ELSE ReadInto(Append(records, ReadRecord(lines[1]).rec), Tail(lines))

\* Section.search
RECURSIVE SectionSearchOf(_, _, _)
SectionSearchOf(records, field, regex) ==
    IF records = <<>> THEN <<>>
    ELSE (IF matches(records[1], field, regex) THEN <<records[1]>> ELSE <<>>)
         \o SectionSearchOf(Tail(records), field, regex)

\* '\n'.join(str(section) for section in self.sections)
ZoneText(ids, heap) ==
    Join([i \in 1..Len(ids) |-> SectionStr(heap[ids[i]].records)], "\n")

\* AuthoritativeDNS.read, lines 29-33: the heap, the section list and the
\* exception after reading the paths in order
RECURSIVE ReadPaths(_, _, _)
ReadPaths(paths, heap, ids) ==
    IF paths = <<>> THEN [objs |-> heap, sections |-> ids, err |-> ""]
    ELSE LET r == ReadInto(Section(paths[1]).records, yield_lines(files[paths[1]]))
             heap2 == Append(heap, [file_name |-> paths[1], records |-> r.records])
         IN  IF r.err /= "" THEN [objs |-> heap2, sections |-> ids, err |-> r.err]
             ELSE ReadPaths(Tail(paths), heap2, Append(ids, Len(heap2)))

\* Faulty variant of Insert0: the section goes to the end of the list.
Insert0_AtEnd(ids, s) == Append(ids, s)
\* list.insert(0, section)
Insert0(ids, s) == <<s>> \o ids

\* Section(file_name)
NewSection(file_name) ==
    /\ rpc = "zone"
    /\ Len(objs) < MaxObjs
    /\ objs' = Append(objs, Section(file_name))
    /\ out' = Returned("Section", Len(objs) + 1)
    /\ UNCHANGED <<files, sections, rec, text, parsed, rpc, leaseVars>>

\* Section.add with one record
Add(s, r) ==
    /\ rpc = "zone"
    /\ Len(objs[s].records) < MaxRecords
    /\ objs' = [objs EXCEPT ![s].records = Append(@, r)]
    /\ out' = Returned("Section.add", s)
    /\ UNCHANGED <<files, sections, rec, text, parsed, rpc, leaseVars>>

\* Section.read; open('') fails in yield_lines for a section bound to no file
SectionRead(s) ==
    /\ rpc = "zone"
    /\ Len(objs[s].records) <= MaxRecords
    /\ IF objs[s].file_name = ""
       THEN /\ out' = Ended("Section.read", s, "IOError")
            /\ UNCHANGED objs
       ELSE LET r == ReadInto(objs[s].records, yield_lines(files[objs[s].file_name]))
            IN  /\ objs' = [objs EXCEPT ![s].records = r.records]
                /\ out' = Ended("Section.read", s, r.err)
    /\ UNCHANGED <<files, sections, rec, text, parsed, rpc, leaseVars>>

\* Section.search
SectionSearch(s, field, regex) ==
    /\ rpc = "zone"
    /\ out' = Ret("Section.search", s, field, regex, "records", <<>>,
                   SectionSearchOf(objs[s].records, field, regex))
    /\ UNCHANGED <<files, objs, sections, rec, text, parsed, rpc, leaseVars>>

\* AuthoritativeDNS.read
ZoneRead(paths) ==
    /\ rpc = "zone"
    /\ Len(objs) + Len(paths) <= MaxObjs
    /\ LET r == ReadPaths(paths, objs, <<>>)
       IN  /\ objs' = r.objs
           /\ sections' = r.sections
           /\ out' = Ended("read", 0, r.err)
    /\ UNCHANGED <<files, rec, text, parsed, rpc, leaseVars>>

\* AuthoritativeDNS.append
ZoneAppend(s) ==
    /\ rpc = "zone"
    /\ Len(sections) < MaxSections
    /\ sections' = Append(sections, s)
    /\ out' = Returned("append", s)
    /\ UNCHANGED <<files, objs, rec, text, parsed, rpc, leaseVars>>

\* AuthoritativeDNS.prepend
ZonePrepend(s) ==
    /\ rpc = "zone"
    /\ Len(sections) < MaxSections
    /\ sections' = Insert0(sections, s)
    /\ out' = Returned("prepend", s)
    /\ UNCHANGED <<files, objs, rec, text, parsed, rpc, leaseVars>>

\* AuthoritativeDNS.search: results is filled and the method ends without a
\* return statement, so the call returns None
ZoneSearch(field, regex) ==
    /\ rpc = "zone"
    /\ out' = Ret("search", 0, field, regex, "None", <<>>, <<>>)
    /\ UNCHANGED <<files, objs, sections, rec, text, parsed, rpc, leaseVars>>

\* AuthoritativeDNS.__str__
ZoneStr ==
    /\ rpc = "zone"
    /\ out' = Ret("str", 0, "", <<>>, "text", ZoneText(sections, objs), <<>>)
    /\ UNCHANGED <<files, objs, sections, rec, text, parsed, rpc, leaseVars>>

\* AuthoritativeDNS.merge: files.save(data, <root>/data, safe=True).  It is
\* the last call of a run, as in the driver (dhcp2tinydns.py:122).
ZoneMerge ==
    /\ rpc = "zone"
    /\ files' = [files EXCEPT !["data"] = ZoneText(sections, objs)]
    /\ out' = Returned("merge", 0)
    /\ rpc' = "merged"
    /\ UNCHANGED <<objs, sections, rec, text, parsed, leaseVars>>

(***************************************************************************)
(* Specifications.                                                         *)
(***************************************************************************)
\* the lease store and the driver are not running
LeaseIdle ==
    /\ pc = "idle"
    /\ tracing = FALSE
    /\ log = <<>>
    /\ current_lease = NoLease
    /\ leases = <<>>
    /\ err = ""
    /\ CURRENT_TIME = 0
    /\ lookup = NoLookup
    /\ mac_host_names = <<>>
    /\ dynamics = <<>>
    /\ reached = <<>>
    /\ uniq = <<>>
    /\ upos = 0

\* no data line, section or zone has been made
DataIdle ==
    /\ rec = NoRecord
    /\ text = <<>>
    /\ parsed = NoParse
    /\ rpc = "idle"
    /\ files = InitFiles
    /\ objs = <<>>
    /\ sections = <<>>
    /\ out = NoneOut

InitRecords ==
    /\ LeaseIdle
    /\ \/ rec \in Records /\ text = <<>> /\ rpc = "built"
       \/ rec = NoRecord /\ text \in GivenLines /\ rpc = "serialized"
    /\ parsed = NoParse
    /\ files = InitFiles
    /\ objs = <<>>
    /\ sections = <<>>
    /\ out = NoneOut

NextRecords == Serialize \/ Parse

\* a data line object serialised and read back, or a given line read
SpecRecords == InitRecords /\ [][NextRecords]_vars

InitZone ==
    /\ LeaseIdle
    /\ rec = NoRecord
    /\ text = <<>>
    /\ parsed = NoParse
    /\ rpc = "zone"
    /\ files = InitFiles
    /\ objs = <<>>
    /\ sections = <<>>
    /\ out = NoneOut

NextSection ==
    \/ \E file_name \in Paths \cup {""} : NewSection(file_name)
    \/ \E s \in 1..Len(objs), r \in AddRecords : Add(s, r)
    \/ \E s \in 1..Len(objs) : SectionRead(s)
    \/ \E s \in 1..Len(objs), field \in SearchFields, regex \in Regexes :
          SectionSearch(s, field, regex)

\* sections under the calls of their callers
SpecSection == InitZone /\ [][NextSection]_vars

NextZone ==
    \/ NewSection("")
    \/ \E s \in 1..Len(objs), r \in AddRecords : Add(s, r)
    \/ \E paths \in PathLists : ZoneRead(paths)
    \/ \E s \in 1..Len(objs) : ZoneAppend(s)
    \/ \E s \in 1..Len(objs) : ZonePrepend(s)
    \/ \E field \in SearchFields, regex \in Regexes : ZoneSearch(field, regex)
    \/ ZoneStr
    \/ ZoneMerge

\* a zone of sections read from files and of sections made by the caller
SpecZone == InitZone /\ [][NextZone]_vars

InitParse ==
    /\ pc = "parse"
    /\ tracing = TRUE
    /\ log = <<>>
    /\ current_lease = NoLease
    /\ leases = <<>>
    /\ err = ""
    /\ CURRENT_TIME = 0
    /\ lookup = NoLookup
    /\ mac_host_names = <<>>
    /\ dynamics = <<>>
    /\ reached = <<>>
    /\ uniq = <<>>
    /\ upos = 0
    /\ DataIdle

NextParse ==
    \/ \E line \in Lines : ReadLine(line)
    \/ EndOfInput

\* Leases(file_name) alone, with the lines read recorded
SpecParse == InitParse /\ [][NextParse]_vars

Init ==
    /\ pc = "parse"
    /\ tracing = FALSE
    /\ log = <<>>
    /\ current_lease = NoLease
    /\ leases = <<>>
    /\ err = ""
    /\ CURRENT_TIME \in NowChoices
    /\ lookup = NoLookup
    /\ mac_host_names = <<>>
    /\ dynamics = <<>>
    /\ reached = <<>>
    /\ uniq = <<>>
    /\ upos = 0
    /\ DataIdle

Next ==
    \/ \E line \in Lines : ReadLine(line)
    \/ EndOfInput
    \/ \E mac \in MACs, host_name \in HostNames : MacFileLine(mac, host_name)
    \/ YieldUnique
    \/ UniqueLease
    \/ DriverDone

\* the driver from dhcp2tinydns.py:81 on
Spec == Init /\ [][Next]_vars

(***************************************************************************)
(* Claims about the lease parser and the lease store.                      *)
(***************************************************************************)
\* The lease-block automaton of the specification, run over a log: the
\* blocks closed so far, each with the index of its `lease ` line, and
\* whether a block is open after the last line.
RECURSIVE Blocks(_, _, _, _)
Blocks(lines, i, openAt, closed) ==
    IF i > Len(lines) THEN [closed |-> closed, openAt |-> openAt]
    ELSE IF openAt = 0 /\ lines[i].kind = "lease" THEN Blocks(lines, i + 1, i, closed)
    ELSE IF openAt /= 0 /\ lines[i].kind = "close"
         THEN Blocks(lines, i + 1, 0, Append(closed, openAt))
    ELSE Blocks(lines, i + 1, openAt, closed)

BlocksOf(lines) == Blocks(lines, 1, 0, <<>>)

\* C1: for every sequence of lines read so far, the leases emitted are
\* exactly the blocks opened by a `lease ` line in Idle and closed by a `}`
\* line, one lease per block, in log order until the final sort (and the
\* same leases after it); a block is being accumulated exactly when the
\* automaton is in InLease, and the block open at the end of the input is
\* not emitted.
C1_OneLeasePerClosedBlock ==
    LET b == BlocksOf(log)
    IN  /\ Len(leases) = Len(b.closed)
        /\ pc \in {"parse", "error"} =>
              /\ \A i \in 1..Len(leases) :
                    leases[i].blk = i /\ leases[i].ip = log[b.closed[i]].ip
              /\ (current_lease /= NoLease) = (b.openAt /= 0)
        /\ pc = "ready" =>
              /\ {leases[i].blk : i \in 1..Len(leases)} = 1..Len(b.closed)
              /\ \A i \in 1..Len(leases) : leases[i].ip = log[b.closed[leases[i].blk]].ip

\* a block was closed and emitted, a later one was still open at the end of
\* the input, and the store holds the closed one only
C1_Witness ==
    /\ pc = "ready"
    /\ Len(leases) = 1
    /\ BlocksOf(log).openAt > BlocksOf(log).closed[1]

\* C2: after a full parse, leases[mac] returns, for a MAC some stored lease
\* carries, a lease with that MAC whose expiration is not below that of any
\* other stored lease with the MAC (None being the minimum), and raises
\* KeyError for a MAC no stored lease carries.
C2_LookupIsLatest ==
    lookup /= NoLookup =>
        IF \E i \in 1..Len(leases) : leases[i].mac = lookup.mac
        THEN /\ lookup.found
             /\ lookup.lease.mac = lookup.mac
             /\ \E i \in 1..Len(leases) : leases[i] = lookup.lease
             /\ \A i \in 1..Len(leases) :
                   leases[i].mac = lookup.mac =>
                       \/ leases[i].expiration = NoneTime
                       \/ /\ lookup.lease.expiration /= NoneTime
                          /\ leases[i].expiration <= lookup.lease.expiration
        ELSE ~lookup.found

\* two stored leases share the MAC looked up and expire at different times
C2_Witness ==
    /\ lookup.found
    /\ \E i, j \in 1..Len(leases) :
          /\ leases[i].mac = lookup.mac
          /\ leases[j].mac = lookup.mac
          /\ leases[i].expiration /= NoneTime
          /\ leases[j].expiration /= NoneTime
          /\ leases[i].expiration < leases[j].expiration

Clamp(x) == IF x < MinTtl THEN MinTtl ELSE IF x > MaxTtl THEN MaxTtl ELSE x

\* C9: every lease the driver reaches (by a MAC file line that finds a
\* lease, or as a unique lease with a host name not in the MAC file) gives
\* an Alias record whose TTL is clamp(expiration - now, 60, 86400), the
\* difference taken in whole seconds.
C9_EveryReachedLeaseGetsClampedTtl ==
    \A i \in 1..Len(reached) :
        /\ i <= Len(dynamics)
        /\ dynamics[i].ip = reached[i].ip
        /\ dynamics[i].ttl = DecStr(Clamp(IntTrunc(reached[i].expiration - CURRENT_TIME)))

\* the leases of one MAC with the greatest expiration among them
Latest(m) ==
    {i \in 1..Len(leases) :
        /\ leases[i].mac = m
        /\ \A j \in 1..Len(leases) :
              leases[j].mac = m => LeaseCmp(leases[j], leases[i]) <= 0}

\* C10 as stated: when closed blocks share a MAC and an expiration, the
\* lease selected for the MAC is the one whose block is first in the log.
C10_TieGoesToFirstBlock ==
    lookup.found =>
        \A i \in Latest(lookup.mac) : lookup.lease.blk <= leases[i].blk

\* C10 as the code has it: among the leases of a MAC with the greatest
\* expiration, the one selected is the one whose block is LAST in the log;
\* stored leases with equal expiration are in reverse log order.
C10_TieGoesToLastBlock ==
    /\ lookup.found =>
          \A i \in Latest(lookup.mac) : lookup.lease.blk >= leases[i].blk
    /\ pc \in {"ready", "unique", "done"} =>
          \A i, j \in 1..Len(leases) :
              (i < j /\ leases[i].expiration = leases[j].expiration) =>
                  leases[i].blk > leases[j].blk

\* the MAC looked up is carried by two stored leases with equal expiration
C10_Witness ==
    /\ lookup.found
    /\ Cardinality(Latest(lookup.mac)) >= 2

(***************************************************************************)
(* Claims about data lines, sections and the zone.                         *)
(***************************************************************************)
\* C4: round trip: for every data line object r of every class, reading the
\* line str(r) the way Section.read does gives an object of the same class
\* with the same marker and the same field values, whose str is the same line.
C4_RoundTrip ==
    (rpc = "parsed" /\ rec /= NoRecord) =>
        /\ parsed.err = ""
        /\ parsed.rec.cls = rec.cls
        /\ parsed.rec.marker = rec.marker
        /\ parsed.rec.fields = rec.fields
        /\ Str(parsed.rec) = text

\* C5: reading a name-server line gives a NameServer whose marker is the
\* marker of the line: `&` a delegated one, `.` an authoritative one.
C5_NameServerMarkerKept ==
    (rpc = "parsed" /\ text[1] \in MarkersOf("NameServer")) =>
        /\ parsed.err = ""
        /\ parsed.rec.cls = "NameServer"
        /\ parsed.rec.marker = text[1]

\* C6: right after Section.read on a file-bound section, the records are
\* exactly the records of the file's lines, in file order.
C6_ReadReplaces ==
    (out.call = "Section.read" /\ objs[out.sec].file_name /= "") =>
        objs[out.sec].records =
            ReadInto(<<>>, yield_lines(files[objs[out.sec].file_name])).records

\* each section's search result, concatenated in section order
RECURSIVE SearchAll(_, _, _, _)
SearchAll(ids, heap, field, regex) ==
    IF ids = <<>> THEN <<>>
    ELSE SearchAll(Front(ids), heap, field, regex)
         \o SelectSeq(heap[ids[Len(ids)]].records, LAMBDA r : matches(r, field, regex))

\* C7: the zone's search(field, regex) returns the concatenation, in
\* section order, of each section's search result.
C7_ZoneSearchConcatenates ==
    out.call = "search" =>
        /\ out.kind = "records"
        /\ out.records = SearchAll(sections, objs, out.field, out.regex)

\* the sections' texts in order, a separator between two of them
RECURSIVE TextsInOrder(_, _)
TextsInOrder(ids, heap) ==
    IF ids = <<>> THEN <<>>
    ELSE IF Len(ids) = 1 THEN SectionStr(heap[ids[1]].records)
    ELSE TextsInOrder(Front(ids), heap) \o <<"\n">>
         \o SectionStr(heap[ids[Len(ids)]].records)

\* C8: read(paths...) replaces the section list by one new section per path
\* in the caller's order, prepend puts a section at the front and append at
\* the back of the list, the others keeping their order; the zone's text and
\* what merge writes to `data` are the sections' texts in list order joined
\* by the separator.
C8_SectionOrderAndText ==
    [][/\ out'.call = "prepend" =>
             \A s \in 1..Len(objs) : ZonePrepend(s) => sections' = <<s>> \o sections
       /\ out'.call = "append" =>
             \A s \in 1..Len(objs) : ZoneAppend(s) => sections' = sections \o <<s>>
       /\ out'.call = "read" =>
             \A paths \in PathLists :
                 ZoneRead(paths) =>
                     /\ Len(sections') = Len(paths)
                     /\ \A i \in 1..Len(paths) :
                           /\ sections'[i] = Len(objs) + i
                           /\ objs'[sections'[i]].file_name = paths[i]
                           /\ objs'[sections'[i]].records =
                                  ReadInto(<<>>, yield_lines(files[paths[i]])).records
       /\ out'.call = "str" => (ZoneStr /\ out'.text = TextsInOrder(sections, objs))
       /\ out'.call = "merge" =>
             (ZoneMerge /\ files'["data"] = TextsInOrder(sections, objs))]_vars

\* merge has written a zone of three sections: a section of the caller with
\* a record was prepended to and appended after a section read from a file
C8_Witness ==
    /\ rpc = "merged"
    /\ Len(sections) = 3
    /\ sections[1] = sections[3]
    /\ objs[sections[1]].records /= <<>>
    /\ objs[sections[2]].file_name \in Paths
    /\ files["data"] = TextsInOrder(sections, objs)
    /\ Len(files["data"]) > 6

====
